---- MODULE Spec2Model ----
(***************************************************************************)
(* Rogu: synchronisation of one resource identity (local path, Ugor uri)   *)
(* between client machines and the Ugor object store.                      *)
(*                                                                         *)
(* Every client p of Procs has its own local path, its own File resource   *)
(* object and its own history file; all clients share the one Ugor object  *)
(* the uri names.  An rdsl action (install, upload, sync, update) runs to  *)
(* completion as one step: it performs at most one request that the store  *)
(* answers with success, so steps of different clients interleave exactly  *)
(* at the store.                                                           *)
(*                                                                         *)
(* Names that the callers in resources.py, rdsl.py and history.py use but  *)
(* that their modules do not define are resolved as the callers use them:  *)
(* ugor.get_header is the metadata-only request of the store,              *)
(* resource.local_hash is the fingerprint path_hash, and ugor.put binds    *)
(* the uploaded object to its first parameter and hands back the file.     *)
(*                                                                         *)
(* The commands of cli.py hand the switches -D and -C to the rdsl actions  *)
(* as keywords the actions do not declare; the commands are modelled as    *)
(* the calls the rdsl interface takes, without force.  Each client keeps   *)
(* the record of the resource in its cache; `rogu update` without a        *)
(* resource runs over a cache of several resources, each with a local      *)
(* path, a history file and a remote object of its own.                    *)
(*                                                                         *)
(* `rogu mv` is modelled on one machine whose local paths are the          *)
(* identities of Procs.  is_modified, cache_key and expand_key are checked *)
(* as functions of their inputs, cache_key together with the memo that     *)
(* functools.cache keeps and the working directory.                        *)
(***************************************************************************)
EXTENDS Integers, Sequences, FiniteSets, TLC

VARIABLES
    remote,     \* the Ugor object: exists, content, etag, modified, data2
    path,       \* path[p]: content of the local path of client p, 0 = absent
    pmod,       \* pmod[p]: st_mtime of the local path of client p
    res,        \* res[p]: the resource object (category, last_etag, last_modified)
    history,    \* history[p]: the rows of the history file, oldest first
    clock,      \* wall-clock time, in steps of the timestamp resolution
    nextTag,    \* number of ETags the store has issued
    ret,        \* outcome of the latest step
    cache,      \* cache[p]: the resource cache of client p, <<>> or <<record>>
    batch,      \* the run of `rogu update` over all the resources of a cache
    cwd,        \* the working directory of the process
    memo,       \* the calls functools.cache has remembered for cache_key
    call        \* the latest call of is_modified, cache_key or expand_key:
                \* function, arguments, value and working directory

\* the state of the key functions and the latest call
keyvars == <<cwd, memo, call>>

vars == <<remote, path, pmod, res, history, clock, nextTag, ret, cache, batch,
          keyvars>>

----------------------------------------------------------------------------
\* Bounds of the model

MaxHist == 3        \* rows the history files can hold
MaxTag == 2         \* ETags issued after which `rogu ugor put` rests
MaxClock == 2       \* last tick of the clock

Procs == {1, 2}
Main == CHOOSE p \in Procs : \A q \in Procs : p <= q
Contents == {1, 2}

----------------------------------------------------------------------------
\* Values

None == 0           \* Python None
EmptyStr == -1      \* Python ''

DEFAULT == 0
INSTALL == 1
UPLOAD == 2
SYNC == 3
IGNORE == 16

Truthy(x) == x # None /\ x # EmptyStr

HasBit(cat, b) == (cat \div b) % 2 = 1

BitOr(cat, b) == IF HasBit(cat, b) THEN cat ELSE cat + b

\* SHA-1 digest of a content, taken as injective; never '' and never None
Sha1(c) == 100 + c


----------------------------------------------------------------------------
\* The Ugor store

NoObject == [exists |-> FALSE, content |-> 0, etag |-> None,
             modified |-> None, data2 |-> None]

\* HEAD: the header of the object, or 404
get_header(rem) ==
    IF rem.exists
    THEN [status |-> 200, etag |-> rem.etag, modified |-> rem.modified,
          data2 |-> rem.data2]
    ELSE [status |-> 404, etag |-> None, modified |-> None, data2 |-> None]

\* the store's answer to GET: If-None-Match decides when it is sent, else
\* If-Modified-Since
StoreGet(rem, headers) ==
    IF ~rem.exists THEN [status |-> 404, file |-> NoObject]
    ELSE IF headers.if_none_match # None
    THEN IF headers.if_none_match = rem.etag
         THEN [status |-> 304, file |-> NoObject]
         ELSE [status |-> 200, file |-> rem]
    ELSE IF headers.if_modified_since # None
            /\ rem.modified <= headers.if_modified_since
    THEN [status |-> 304, file |-> NoObject]
    ELSE [status |-> 200, file |-> rem]

\* the store's check of a PUT or DELETE: If-Match decides when it is sent,
\* else If-Unmodified-Since
PreconditionFailed(rem, headers) ==
    IF headers.if_match # None
    THEN ~rem.exists \/ rem.etag # headers.if_match
    ELSE IF headers.if_unmodified_since # None
    THEN rem.exists /\ rem.modified > headers.if_unmodified_since
    ELSE FALSE

\* the store's answer to PUT: 412, or the object is replaced and gets a
\* fresh ETag and the time of the request as Last-Modified
StorePut(rem, headers, content, tag, now) ==
    IF PreconditionFailed(rem, headers)
    THEN [status |-> 412, file |-> rem]
    ELSE [status |-> 200,
          file |-> [exists |-> TRUE, content |-> content, etag |-> tag,
                    modified |-> now, data2 |-> headers.file_data2]]

\* ugor.get: the conditional headers are sent when the arguments are truthy
ugor_get(rem, etag, modified) ==
    StoreGet(rem, [if_none_match |-> IF Truthy(etag) THEN etag ELSE None,
                   if_modified_since |->
                       IF Truthy(modified) THEN modified ELSE None])

\* ugor.put: metadata headers are sent when truthy, the preconditions when
\* truthy and the request is not forced
ugor_put(rem, content, last_etag, last_modified, data2, force, tag, now) ==
    StorePut(rem,
             [file_data2 |-> IF Truthy(data2) THEN data2 ELSE None,
              if_match |->
                  IF Truthy(last_etag) /\ ~force THEN last_etag ELSE None,
              if_unmodified_since |->
                  IF Truthy(last_modified) /\ ~force THEN last_modified
                  ELSE None],
             content, tag, now)

\* the store's answer to DELETE: 404 without the object, 412, or the object
\* is removed
StoreDelete(rem, headers) ==
    IF ~rem.exists THEN [status |-> 404, file |-> rem]
    ELSE IF PreconditionFailed(rem, headers)
    THEN [status |-> 412, file |-> rem]
    ELSE [status |-> 200, file |-> NoObject]

\* ugor.delete: the preconditions are sent when truthy and the request is
\* not forced
ugor_delete(rem, force, etag, modified) ==
    StoreDelete(rem,
                [if_match |-> IF Truthy(etag) /\ ~force THEN etag ELSE None,
                 if_unmodified_since |->
                     IF Truthy(modified) /\ ~force THEN modified ELSE None])

----------------------------------------------------------------------------
\* Resource properties

exists(c) == c # 0

path_hash(c) == IF ~exists(c) THEN EmptyStr ELSE Sha1(c)

local_hash(c) == path_hash(c)

path_modified(c, mtime) == IF ~exists(c) THEN 0 ELSE mtime

NewResource == [category |-> DEFAULT, last_etag |-> None, last_modified |-> None]

\* divergence that looks at the bookkeeping before it looks at the local path
divergence_new_first(r, c, mtime, rem) ==
    LET header == get_header(rem) IN
    IF header.status = 404 THEN (IF exists(c) THEN 1 ELSE 0)
    ELSE IF r.last_etag = None
    THEN (IF header.modified > path_modified(c, mtime) THEN -2 ELSE 2)
    ELSE IF ~exists(c) THEN -1
    ELSE IF header.data2 = None
    THEN (IF r.last_etag # header.etag THEN -1 ELSE 0)
    ELSE IF header.data2 # path_hash(c) /\ r.last_etag # header.etag
    THEN (IF header.modified > path_modified(c, mtime) THEN -2 ELSE 2)
    ELSE IF header.data2 # path_hash(c) THEN 1
    ELSE IF r.last_etag # header.etag THEN -1
    ELSE 0

\* divergence whose tie-break gives equal timestamps to the remote side
divergence_tie_remote(r, c, mtime, rem) ==
    LET header == get_header(rem) IN
    IF header.status = 404 THEN (IF exists(c) THEN 1 ELSE 0)
    ELSE IF ~exists(c) THEN -1
    ELSE IF r.last_etag = None
    THEN (IF header.modified >= path_modified(c, mtime) THEN -2 ELSE 2)
    ELSE IF header.data2 = None
    THEN (IF r.last_etag # header.etag THEN -1 ELSE 0)
    ELSE IF header.data2 # path_hash(c) /\ r.last_etag # header.etag
    THEN (IF header.modified >= path_modified(c, mtime) THEN -2 ELSE 2)
    ELSE IF header.data2 # path_hash(c) THEN 1
    ELSE IF r.last_etag # header.etag THEN -1
    ELSE 0

\* divergence without the branch for resources that were never uploaded
divergence_no_baseline(r, c, mtime, rem) ==
    LET header == get_header(rem) IN
    IF header.status = 404 THEN (IF exists(c) THEN 1 ELSE 0)
    ELSE IF ~exists(c) THEN -1
    ELSE IF r.last_etag = None
    THEN (IF header.modified > path_modified(c, mtime) THEN -2 ELSE 2)
    ELSE IF header.data2 # path_hash(c) /\ r.last_etag # header.etag
    THEN (IF header.modified > path_modified(c, mtime) THEN -2 ELSE 2)
    ELSE IF header.data2 # path_hash(c) THEN 1
    ELSE IF r.last_etag # header.etag THEN -1
    ELSE 0

\* divergence that reports a local change as a remote one and vice versa
divergence_swapped(r, c, mtime, rem) ==
    LET header == get_header(rem) IN
    IF header.status = 404 THEN (IF exists(c) THEN 1 ELSE 0)
    ELSE IF ~exists(c) THEN -1
    ELSE IF r.last_etag = None
    THEN (IF header.modified > path_modified(c, mtime) THEN -2 ELSE 2)
    ELSE IF header.data2 = None
    THEN (IF r.last_etag # header.etag THEN -1 ELSE 0)
    ELSE IF header.data2 # path_hash(c) /\ r.last_etag # header.etag
    THEN (IF header.modified > path_modified(c, mtime) THEN -2 ELSE 2)
    ELSE IF header.data2 # path_hash(c) THEN -1
    ELSE IF r.last_etag # header.etag THEN 1
    ELSE 0

\* _UgorResource.divergence of a resource r with local path content c
divergenceOf(r, c, mtime, rem) ==
    LET header == get_header(rem) IN
    IF header.status = 404 THEN (IF exists(c) THEN 1 ELSE 0)
    ELSE IF ~exists(c) THEN -1
    ELSE LET old_etag == r.last_etag
             new_etag == header.etag
             old_hash == header.data2
             new_hash == path_hash(c)
             uri_mod == header.modified
             path_mod == path_modified(c, mtime)
             is_uploaded == old_hash # None
             is_new == old_etag = None
             has_local_changes == old_hash # new_hash
             has_remote_changes == old_etag # new_etag
         IN  IF is_new THEN (IF uri_mod > path_mod THEN -2 ELSE 2)
             ELSE IF ~is_uploaded
             THEN (IF has_remote_changes THEN -1 ELSE 0)
             ELSE IF has_local_changes /\ has_remote_changes
             THEN (IF uri_mod > path_mod THEN -2 ELSE 2)
             ELSE IF has_local_changes /\ ~has_remote_changes THEN 1
             ELSE IF ~has_local_changes /\ has_remote_changes THEN -1
             ELSE 0

divergence(p) == divergenceOf(res[p], path[p], pmod[p], remote)

----------------------------------------------------------------------------
\* The state one call works on: the caller's resource object, local path and
\* history file and the store, with the outcome of the call
\*   exc      the exception the call ends in, "none" when it returns
\*   success  Result.success of the returned Result
\*   msg      the message the Result was last called with
\*   xfer     "put" after an accepted PUT, "get" after a GET that gave content
\*   content  the bytes ugor_install returned, 0 for None
\*   ran      the action update dispatched to, "none" when it did not
\*   fs       FALSE when the filesystem refuses to write the local path
\*   ifm      the If-Match header of the DELETE sent, "unsent" without one

World(p) ==
    [res |-> res[p], path |-> path[p], pmod |-> pmod[p], hist |-> history[p],
     remote |-> remote, tag |-> nextTag, exc |-> "none", success |-> TRUE,
     msg |-> "none", xfer |-> "none", content |-> 0, ran |-> "none",
     fs |-> TRUE, ifm |-> "unsent"]

Ok(w, m) == [w EXCEPT !.success = TRUE, !.msg = m]

Fail(w, m) == [w EXCEPT !.success = FALSE, !.msg = m]

Raise(w, e) == [w EXCEPT !.exc = e]

MaxOf(S) == CHOOSE x \in S : \A y \in S : y <= x

is_ignored(r) == HasBit(r.category, IGNORE)

is_installed(r) == HasBit(r.category, INSTALL)

is_uploaded(r) == HasBit(r.category, UPLOAD)

is_synced(r) == HasBit(r.category, INSTALL) /\ HasBit(r.category, UPLOAD)

\* is_modified that lets the oldest successful row decide
is_modified_oldest(w, actions) ==
    LET rows == {i \in 1..Len(w.hist) :
                    /\ w.hist[i].ok
                    /\ actions = {} \/ w.hist[i].action \in actions}
    IN  IF rows = {} THEN exists(w.path)
        ELSE LET latest == w.hist[CHOOSE i \in rows : \A j \in rows : i <= j]
             IN  latest.local_hash # local_hash(w.path) \/ ~exists(w.path)

\* is_modified that takes a resource without a row for unmodified
is_modified_unrecorded(w, actions) ==
    LET rows == {i \in 1..Len(w.hist) :
                    /\ w.hist[i].ok
                    /\ actions = {} \/ w.hist[i].action \in actions}
    IN  IF rows = {} THEN FALSE
        ELSE LET latest == w.hist[MaxOf(rows)]
             IN  latest.local_hash # local_hash(w.path) \/ ~exists(w.path)

\* the newest successful row of one of the actions decides (of any action
\* when actions is empty, the None of the code); without such a row the
\* resource is modified exactly when its path exists
is_modified(w, actions) ==
    LET rows == {i \in 1..Len(w.hist) :
                    /\ w.hist[i].ok
                    /\ actions = {} \/ w.hist[i].action \in actions}
    IN  IF rows = {} THEN exists(w.path)
        ELSE LET latest == w.hist[MaxOf(rows)]
             IN  latest.local_hash # local_hash(w.path) \/ ~exists(w.path)

\* refresh_metadata that resets the bookkeeping whether or not the path exists
refresh_metadata_always(w) ==
    IF w.res.category # DEFAULT
    THEN [w EXCEPT !.res.category = DEFAULT, !.res.last_etag = None,
                   !.res.last_modified = None]
    ELSE w

\* File.refresh_metadata
refresh_metadata(w) ==
    IF ~exists(w.path) /\ w.res.category # DEFAULT
    THEN [w EXCEPT !.res.category = DEFAULT, !.res.last_etag = None,
                   !.res.last_modified = None]
    ELSE w

\* history.record, called by the recording wrapper when the call returned
record(name, w) ==
    [w EXCEPT !.hist = Append(@, [action |-> name, ok |-> w.success,
                                  local_hash |-> local_hash(w.path)])]

recording(name, w) == IF w.exc # "none" THEN w ELSE record(name, w)

\* ugor_install that takes a missing object for an unchanged one
ugor_install_missing_unchanged(w, force) ==
    LET file == ugor_get(w.remote,
                         IF force THEN None ELSE w.res.last_etag,
                         IF force THEN None ELSE w.res.last_modified)
    IN  IF file.status \in {304, 404} THEN [w EXCEPT !.content = 0]
        ELSE [w EXCEPT !.res.last_etag = file.file.etag,
                       !.res.last_modified = file.file.modified,
                       !.content = file.file.content]

ugor_install(w, force) ==
    LET file == ugor_get(w.remote,
                         IF force THEN None ELSE w.res.last_etag,
                         IF force THEN None ELSE w.res.last_modified)
    IN  IF file.status = 404 THEN Raise(w, "UgorError404")
        ELSE IF file.status = 304 THEN [w EXCEPT !.content = 0]
        ELSE [w EXCEPT !.res.last_etag = file.file.etag,
                       !.res.last_modified = file.file.modified,
                       !.content = file.file.content]

ugor_upload(w, obj, force) ==
    LET file == ugor_put(w.remote, obj, w.res.last_etag, w.res.last_modified,
                         path_hash(w.path), force, w.tag + 1, clock)
    IN  IF file.status = 412 THEN Raise(w, "UgorError412")
        ELSE [w EXCEPT !.remote = file.file, !.tag = w.tag + 1,
                       !.res.last_etag = file.file.etag,
                       !.res.last_modified = file.file.modified,
                       !.xfer = "put"]

\* File.upload that sends the backup of the previous install
File_upload_backup(w, force) ==
    IF ~exists(w.path) THEN Raise(w, "ActionBlocked")
    ELSE ugor_upload(w, IF w.path = 1 THEN 2 ELSE 1, force)

\* a failing write_bytes raises OSError, which nothing turns into an AppError
File_install(w, force) ==
    LET w1 == ugor_install(w, force)
    IN  IF w1.exc # "none" \/ w1.content = 0 THEN w1
        ELSE IF ~w1.fs THEN Raise(w1, "OSError")
        ELSE [w1 EXCEPT !.path = w1.content, !.pmod = clock, !.xfer = "get"]

File_upload(w, force) ==
    IF ~exists(w.path) THEN Raise(w, "ActionBlocked")
    ELSE ugor_upload(w, w.path, force)

----------------------------------------------------------------------------
\* rdsl actions

install_body(w, force) ==
    IF is_modified(w, {"install"}) /\ ~force
    THEN Fail(w, "not installed: resource has local changes")
    ELSE LET w1 == File_install([w EXCEPT !.res.category = BitOr(@, INSTALL)],
                                force)
         IN  IF w1.exc = "ActionBlocked"
             THEN Fail([w1 EXCEPT !.exc = "none"], "not installed")
             ELSE IF w1.exc # "none" THEN w1
             ELSE Ok(w1, "installed")

install(w, force) ==
    recording("install", install_body(refresh_metadata(w), force))

upload_body(w, force) ==
    IF ~is_modified(w, {"upload"}) /\ ~force
    THEN Fail(w, "not uploaded: resource has no local changes")
    ELSE LET w1 == File_upload([w EXCEPT !.res.category = BitOr(@, UPLOAD)],
                               force)
         IN  IF w1.exc = "ActionBlocked"
             THEN Fail([w1 EXCEPT !.exc = "none"], "not uploaded")
             ELSE IF w1.exc # "none" THEN w1
             ELSE Ok(w1, "uploaded")

upload(w, force) ==
    recording("upload", upload_body(refresh_metadata(w), force))

sync_body(w, force) ==
    LET w1 == [w EXCEPT !.res.category = BitOr(BitOr(@, INSTALL), UPLOAD)]
        tryUpload == is_modified(w1, {"sync", "upload"})
        wu == IF tryUpload THEN File_upload(w1, force) ELSE w1
    IN  IF tryUpload /\ wu.exc = "none" THEN Ok(wu, "synced by uploading")
        ELSE IF tryUpload /\ wu.exc # "ActionBlocked" THEN wu
        ELSE LET w2 == [wu EXCEPT !.exc = "none"]
             IN  IF ~is_modified(w2, {"sync", "install"})
                 THEN LET wi == File_install(w2, force)
                      IN  IF wi.exc = "none"
                          THEN Ok(wi, "synced by installing")
                          ELSE IF wi.exc = "ActionBlocked"
                          THEN Ok([wi EXCEPT !.exc = "none"], "not synced")
                          ELSE wi
                 ELSE Ok(w2, "not synced")

sync(w, force) ==
    recording("sync", sync_body(refresh_metadata(w), force))

\* update that asks is_installed before is_synced
update_install_first(w) ==
    IF is_ignored(w.res) THEN Fail(w, "not updated: ignored")
    ELSE IF is_installed(w.res) THEN install([w EXCEPT !.ran = "install"], FALSE)
    ELSE IF is_synced(w.res) THEN sync([w EXCEPT !.ran = "sync"], FALSE)
    ELSE IF is_uploaded(w.res) THEN upload([w EXCEPT !.ran = "upload"], FALSE)
    ELSE Raise(w, "AppError")

update_body(w) ==
    IF is_ignored(w.res) THEN Fail(w, "not updated: ignored")
    ELSE IF is_synced(w.res) THEN sync([w EXCEPT !.ran = "sync"], FALSE)
    ELSE IF is_installed(w.res) THEN install([w EXCEPT !.ran = "install"], FALSE)
    ELSE IF is_uploaded(w.res) THEN upload([w EXCEPT !.ran = "upload"], FALSE)
    ELSE Raise(w, "AppError")

update(w) == recording("update", update_body(refresh_metadata(w)))

\* getattr(resource, 'etag', None) and getattr(resource, 'modified', None):
\* a resource has the attributes last_etag and last_modified and none named
\* etag or modified, so both give the default
getattr_etag(r) == None

getattr_modified(r) == None

\* the request rdsl.delete sends for an Ugor resource
delete_remote(w, force) ==
    LET etag == getattr_etag(w.res)
        modified == getattr_modified(w.res)
        r == ugor_delete(w.remote, force, etag, modified)
        sent == [w EXCEPT !.ifm = IF Truthy(etag) /\ ~force THEN etag
                                  ELSE None]
    IN  IF r.status = 404 THEN Raise(sent, "UgorError404")
        ELSE IF r.status = 412 THEN Raise(sent, "UgorError412")
        ELSE [sent EXCEPT !.remote = r.file, !.xfer = "delete"]

\* rdsl.delete of a resource of the cache; the step that commits the call
\* takes the record out of the cache when the call returns
delete_body(w, local, rem, force) ==
    LET w1 == IF rem THEN delete_remote(w, force) ELSE w
    IN  IF w1.exc # "none" THEN w1
        ELSE Ok(IF local /\ exists(w1.path) THEN [w1 EXCEPT !.path = 0]
                ELSE w1,
                "deleted from cache")

delete(w, local, rem, force) ==
    recording("delete", delete_body(w, local, rem, force))

----------------------------------------------------------------------------
\* Steps

Outcome(w) ==
    IF w.exc # "none" THEN "Raise" ELSE IF w.success THEN "Ok" ELSE "Fail"

NoRet == [p |-> 0, op |-> "none", force |-> FALSE, div |-> 0, out |-> "none",
          exc |-> "none", msg |-> "none", xfer |-> "none", ran |-> "none",
          ifm |-> "unsent", args |-> <<>>]

\* strings are sequences of characters; the directory the process starts in
Home == <<"/", "h">>

\* functools.cache has remembered no call
NoMemo == <<>>

\* no call of a key function or of is_modified has been made
NoCall == [fn |-> "none", args |-> <<>>, value |-> None, cwd |-> Home]

\* no run of `rogu update` over the cache is under way
NoBatch == [pc |-> "idle", loaded |-> <<>>, reg |-> <<>>, rs |-> <<>>,
            pass |-> 1, i |-> 1, code |-> 0, log |-> <<>>]

\* rows in the history files of all clients
Rows(h) == Len(h[1]) + Len(h[2])

\* the state after a call of client p that ended in world w
Commit(p, op, force, w) ==
    /\ Rows([history EXCEPT ![p] = w.hist]) <= MaxHist
    /\ res' = [res EXCEPT ![p] = w.res]
    /\ path' = [path EXCEPT ![p] = w.path]
    /\ pmod' = [pmod EXCEPT ![p] = w.pmod]
    /\ history' = [history EXCEPT ![p] = w.hist]
    /\ remote' = w.remote
    /\ nextTag' = w.tag
    /\ ret' = [p |-> p, op |-> op, force |-> force, div |-> divergence(p),
               out |-> Outcome(w),
               exc |-> w.exc,
               msg |-> IF w.exc # "none" THEN "none" ELSE w.msg,
               xfer |-> w.xfer, ran |-> w.ran, ifm |-> w.ifm, args |-> <<>>]
    /\ UNCHANGED <<keyvars, clock, cache, batch>>

Install(p, force) == Commit(p, "install", force, install(World(p), force))

Upload(p, force) == Commit(p, "upload", force, upload(World(p), force))

Sync(p, force) == Commit(p, "sync", force, sync(World(p), force))

Update(p) == Commit(p, "update", FALSE, update(World(p)))

\* the user writes the local path
LocalEdit(p, c) ==
    /\ path' = [path EXCEPT ![p] = c]
    /\ pmod' = [pmod EXCEPT ![p] = clock]
    /\ ret' = NoRet
    /\ UNCHANGED <<keyvars, remote, res, history, clock, nextTag, cache, batch>>

\* the user removes the local path
LocalRemove(p) ==
    /\ exists(path[p])
    /\ path' = [path EXCEPT ![p] = 0]
    /\ ret' = NoRet
    /\ UNCHANGED <<keyvars, remote, pmod, res, history, clock, nextTag, cache, batch>>

\* `rogu ugor put FILE NAME [--data2 D]`, or the upload of a client that is
\* not modelled: an unconditional PUT
UgorPut(c, d) ==
    /\ nextTag < MaxTag
    /\ remote' = ugor_put(remote, c, None, None, d, FALSE,
                          nextTag + 1, clock).file
    /\ nextTag' = nextTag + 1
    /\ ret' = NoRet
    /\ UNCHANGED <<keyvars, path, pmod, res, history, clock, cache, batch>>

\* `rogu ugor rm NAME`: an unconditional DELETE
UgorRm ==
    /\ remote.exists
    /\ remote' = NoObject
    /\ ret' = NoRet
    /\ UNCHANGED <<keyvars, path, pmod, res, history, clock, nextTag, cache, batch>>

Tick ==
    /\ clock < MaxClock
    /\ clock' = clock + 1
    /\ ret' = NoRet
    /\ UNCHANGED <<keyvars, remote, path, pmod, res, history, nextTag, cache, batch>>

Init ==
    /\ remote = NoObject
    /\ path = [p \in Procs |-> 0]
    /\ pmod = [p \in Procs |-> 0]
    /\ res = [p \in Procs |-> NewResource]
    /\ history = [p \in Procs |-> <<>>]
    /\ clock = 1
    /\ nextTag = 0
    /\ ret = NoRet
    /\ cache = [p \in Procs |-> <<>>]
    /\ batch = NoBatch
    /\ cwd = Home /\ memo = NoMemo /\ call = NoCall

Next ==
    \/ \E force \in BOOLEAN : Install(Main, force)
    \/ \E force \in BOOLEAN : Upload(Main, force)
    \/ \E force \in BOOLEAN : Sync(Main, force)
    \/ Update(Main)
    \/ \E c \in Contents : LocalEdit(Main, c)
    \/ LocalRemove(Main)
    \/ \E c \in Contents : \E d \in {None, Sha1(c)} : UgorPut(c, d)
    \/ UgorRm
    \/ Tick

Spec == Init /\ [][Next]_vars

\* two clients of the same identity, each on its own machine
NextPair ==
    \/ \E p \in Procs, force \in BOOLEAN : Install(p, force)
    \/ \E p \in Procs, force \in BOOLEAN : Upload(p, force)
    \/ \E p \in Procs, c \in Contents : LocalEdit(p, c)
    \/ \E p \in Procs : LocalRemove(p)

SpecPair == Init /\ [][NextPair]_vars

----------------------------------------------------------------------------
\* divergence() as a function of its inputs: the remote object, the local
\* path and the bookkeeping of the resource are drawn from all the values
\* they can take, and the one step evaluates divergence()

RemoteObjects ==
    {NoObject} \cup
    [exists : {TRUE}, content : Contents, etag : 1..MaxTag,
     modified : 1..MaxClock, data2 : {None} \cup {Sha1(c) : c \in Contents}]

Resources ==
    [category : {DEFAULT, INSTALL, UPLOAD, SYNC},
     last_etag : {None, EmptyStr} \cup (1..MaxTag),
     last_modified : {None}]

InitDiv ==
    /\ remote \in RemoteObjects
    /\ \E c \in {0} \cup Contents, t \in 1..MaxClock :
        /\ path = [p \in Procs |-> IF p = Main THEN c ELSE 0]
        /\ pmod = [p \in Procs |-> IF p = Main /\ exists(c) THEN t ELSE 0]
    /\ \E r \in Resources :
        res = [p \in Procs |-> IF p = Main THEN r ELSE NewResource]
    /\ history = [p \in Procs |-> <<>>]
    /\ clock = MaxClock
    /\ nextTag = MaxTag
    /\ ret = NoRet
    /\ cache = [p \in Procs |-> <<>>]
    /\ batch = NoBatch
    /\ cwd = Home /\ memo = NoMemo /\ call = NoCall

Divergence(p) ==
    /\ ret.op = "none"
    /\ ret' = [NoRet EXCEPT !.p = p, !.op = "divergence",
                            !.div = divergence(p)]
    /\ UNCHANGED <<keyvars, remote, path, pmod, res, history, clock, nextTag, cache, batch>>

NextDiv == Divergence(Main)

SpecDiv == InitDiv /\ [][NextDiv]_vars

----------------------------------------------------------------------------
\* update() over the categories a resource can carry: the category, the
\* bookkeeping, the local path and the remote object are drawn from all the
\* values they can take, and the steps are calls of update

Categories ==
    {i + u + g : i \in {DEFAULT, INSTALL}, u \in {DEFAULT, UPLOAD},
                 g \in {DEFAULT, IGNORE}}

\* the history file: empty, or one row of an earlier successful action
HistoryFiles ==
    {<<>>} \cup
    {<<[action |-> a, ok |-> TRUE, local_hash |-> Sha1(c)]>> :
        a \in {"install", "upload", "sync"}, c \in Contents}

InitUpd ==
    /\ remote \in RemoteObjects
    /\ \E c \in {0} \cup Contents :
        /\ path = [p \in Procs |-> IF p = Main THEN c ELSE 0]
        /\ pmod = [p \in Procs |-> IF p = Main /\ exists(c) THEN 1 ELSE 0]
    /\ \E cat \in Categories, e \in {None} \cup (1..MaxTag) :
        res = [p \in Procs |->
                IF p = Main
                THEN [category |-> cat, last_etag |-> e,
                      last_modified |-> IF e = None THEN None ELSE 1]
                ELSE NewResource]
    /\ \E h \in HistoryFiles :
        history = [p \in Procs |-> IF p = Main THEN h ELSE <<>>]
    /\ clock = MaxClock
    /\ nextTag = MaxTag
    /\ ret = NoRet
    /\ cache = [p \in Procs |-> <<>>]
    /\ batch = NoBatch
    /\ cwd = Home /\ memo = NoMemo /\ call = NoCall

NextUpd == Update(Main)

SpecUpd == InitUpd /\ [][NextUpd]_vars

----------------------------------------------------------------------------
\* `rogu update` without a resource: the loop of the update command over the
\* resources of the cache.  Every resource of the cache is an identity of
\* its own, with its own local path, remote object and history rows:
\*   loaded  the categories of the list rs as it was read from the cache
\*   reg     the cache and the world of each resource, in the order of rs
\*   rs      the resources not yet popped, as indexes into reg
\*   pass    index into the list priority;  i  index into rs
\*   code    the exit status;  log  the resources handed to update, in order
\*   pc      "loop", "exit" after sys.exit(code), "crash" after an exception
\*           that the loop does not catch

MaxBatch == 3       \* resources in the cache

\* the resources a cache can hold: installed, uploaded, synced or ignored,
\* the local path there or gone, writable or not, the remote object there
\* or not, after an install of content 1
Members ==
    [res : {[category |-> c, last_etag |-> None, last_modified |-> None] :
                c \in {INSTALL, UPLOAD, SYNC, IGNORE}},
     path : {0, 1},
     pmod : {1},
     remote : {NoObject,
               [exists |-> TRUE, content |-> 2, etag |-> 1, modified |-> 1,
                data2 |-> None]},
     hist : {<<[action |-> "install", ok |-> TRUE, local_hash |-> Sha1(1)]>>},
     fs : BOOLEAN]

Registries == UNION {[1..n -> Members] : n \in 1..MaxBatch}

MemberWorld(m) ==
    [res |-> m.res, path |-> m.path, pmod |-> m.pmod, hist |-> m.hist,
     remote |-> m.remote, tag |-> 1, exc |-> "none", success |-> TRUE,
     msg |-> "none", xfer |-> "none", content |-> 0, ran |-> "none",
     fs |-> m.fs, ifm |-> "unsent"]

\* the entries of the list priority
prioritized(pass, r) == IF pass = 1 THEN is_uploaded(r) ELSE TRUE

AppErrors == {"AppError", "ActionBlocked", "UgorError404", "UgorError412"}

InitBatch ==
    /\ remote = NoObject
    /\ path = [p \in Procs |-> 0]
    /\ pmod = [p \in Procs |-> 0]
    /\ res = [p \in Procs |-> NewResource]
    /\ history = [p \in Procs |-> <<>>]
    /\ clock = 1
    /\ nextTag = 0
    /\ ret = NoRet
    /\ cache = [p \in Procs |-> <<>>]
    /\ cwd = Home /\ memo = NoMemo /\ call = NoCall
    /\ \E reg \in Registries :
        batch = [pc |-> "loop", loaded |-> [k \in DOMAIN reg |-> reg[k].res],
                 reg |-> reg, rs |-> [k \in DOMAIN reg |-> k],
                 pass |-> 1, i |-> 1, code |-> 0, log |-> <<>>]

\* rs.pop(i)
Pop(rs, i) == [k \in 1..(Len(rs) - 1) |-> IF k < i THEN rs[k] ELSE rs[k + 1]]

\* `if not prioritized(rs[i]): i += 1; continue`
BatchSkip ==
    /\ batch.pc = "loop" /\ batch.pass <= 2 /\ batch.i <= Len(batch.rs)
    /\ ~prioritized(batch.pass, batch.loaded[batch.rs[batch.i]])
    /\ batch' = [batch EXCEPT !.i = @ + 1]
    /\ UNCHANGED <<keyvars, remote, path, pmod, res, history, clock, nextTag, ret, cache>>

\* the try statement of the loop: pop, update, and store when nothing was
\* raised; an AppError sets the exit status, any other exception leaves the
\* loop and the process
BatchUpdate ==
    /\ batch.pc = "loop" /\ batch.pass <= 2 /\ batch.i <= Len(batch.rs)
    /\ prioritized(batch.pass, batch.loaded[batch.rs[batch.i]])
    /\ LET k == batch.rs[batch.i]
           m == batch.reg[k]
           w == update(MemberWorld(m))
           m1 == [m EXCEPT !.path = w.path, !.pmod = w.pmod,
                           !.remote = w.remote, !.hist = w.hist,
                           !.res = IF w.exc = "none" THEN w.res ELSE @]
       IN  batch' = [batch EXCEPT
                        !.rs = Pop(@, batch.i),
                        !.reg[k] = m1,
                        !.log = Append(@, [id |-> k, exc |-> w.exc]),
                        !.code = IF w.exc \in AppErrors \ {"ActionBlocked"}
                                    \/ w.exc \notin AppErrors \cup {"none"}
                                 THEN 1 ELSE @,
                        !.pc = IF w.exc \in AppErrors \cup {"none"}
                               THEN "loop" ELSE "crash"]
    /\ UNCHANGED <<keyvars, remote, path, pmod, res, history, clock, nextTag, ret, cache>>

\* the while loop ends and the for loop takes the next entry of priority
BatchNextPass ==
    /\ batch.pc = "loop" /\ batch.pass <= 2 /\ batch.i > Len(batch.rs)
    /\ batch' = [batch EXCEPT !.pass = @ + 1, !.i = 1]
    /\ UNCHANGED <<keyvars, remote, path, pmod, res, history, clock, nextTag, ret, cache>>

\* sys.exit(code)
BatchExit ==
    /\ batch.pc = "loop" /\ batch.pass > 2
    /\ batch' = [batch EXCEPT !.pc = "exit"]
    /\ UNCHANGED <<keyvars, remote, path, pmod, res, history, clock, nextTag, ret, cache>>

NextBatch == BatchSkip \/ BatchUpdate \/ BatchNextPass \/ BatchExit

SpecBatch == InitBatch /\ [][NextBatch]_vars

----------------------------------------------------------------------------
\* The commands of the command line on the one identity (path, uri): every
\* command fetches the resource, runs the rdsl action without force and
\* stores the resource when the action returned

\* rdsl.fetch: the stored resource, else a new one
fetch(p) == IF cache[p] = <<>> THEN NewResource ELSE cache[p][1]

\* rdsl.store
store(r) == <<r>>

\* the state after a command of client p that ended in world w and left
\* the cache entry reg
Command(p, op, force, args, w, reg) ==
    /\ Rows([history EXCEPT ![p] = w.hist]) <= MaxHist
    /\ res' = [res EXCEPT ![p] = w.res]
    /\ path' = [path EXCEPT ![p] = w.path]
    /\ pmod' = [pmod EXCEPT ![p] = w.pmod]
    /\ history' = [history EXCEPT ![p] = w.hist]
    /\ remote' = w.remote
    /\ nextTag' = w.tag
    /\ cache' = [cache EXCEPT ![p] = reg]
    /\ ret' = [p |-> p, op |-> op, force |-> force, div |-> 0,
               out |-> Outcome(w),
               exc |-> w.exc,
               msg |-> IF w.exc # "none" THEN "none" ELSE w.msg,
               xfer |-> w.xfer, ran |-> w.ran, ifm |-> w.ifm, args |-> args]
    /\ UNCHANGED <<keyvars, clock, batch>>

\* try: action except ActionBlocked: warn else: store
Stored(p, w) == IF w.exc = "none" THEN store(w.res) ELSE cache[p]

Fetched(p) == [World(p) EXCEPT !.res = fetch(p)]

\* `rogu install PATH URI`
CliInstall(p) ==
    LET w == install(Fetched(p), FALSE)
    IN  Command(p, "install", FALSE, <<>>, w, Stored(p, w))

\* `rogu upload PATH URI`, PATH has to exist
CliUpload(p) ==
    /\ exists(path[p])
    /\ LET w == upload(Fetched(p), FALSE)
       IN  Command(p, "upload", FALSE, <<>>, w, Stored(p, w))

\* `rogu sync PATH URI`
CliSync(p) ==
    LET w == sync(Fetched(p), FALSE)
    IN  Command(p, "sync", FALSE, <<>>, w, Stored(p, w))

\* `rogu update -r KEY`, KEY has to be in the cache
CliUpdate(p) ==
    /\ cache[p] # <<>>
    /\ LET w == update(Fetched(p))
       IN  Command(p, "update", FALSE, <<>>, w, Stored(p, w))

\* rdsl.delete of the resource of the cache (`rogu rm KEY` is the call with
\* the defaults local = False, remote = True, force = False)
Delete(p, local, rem, force) ==
    /\ cache[p] # <<>>
    /\ LET w == delete(Fetched(p), local, rem, force)
       IN  Command(p, "delete", force, <<local, rem>>, w,
                   IF w.exc = "none" THEN <<>> ELSE cache[p])

NextCli ==
    \/ CliInstall(Main)
    \/ CliUpload(Main)
    \/ CliSync(Main)
    \/ CliUpdate(Main)
    \/ \E local \in BOOLEAN : \E rem \in BOOLEAN : \E force \in BOOLEAN :
           Delete(Main, local, rem, force)
    \/ \E c \in Contents : LocalEdit(Main, c)
    \/ LocalRemove(Main)
    \/ \E c \in Contents : \E d \in {None, Sha1(c)} : UgorPut(c, d)
    \/ UgorRm

SpecCli == Init /\ [][NextCli]_vars

----------------------------------------------------------------------------
\* A process that dies inside `rogu install`

\* the process is killed after File.install has written the local path and
\* before the recording wrapper and the command's store have run: the path
\* is written, history file and cache are as they were
CrashInstall(p) ==
    LET w == install_body(refresh_metadata(Fetched(p)), FALSE)
    IN  /\ w.exc = "none" /\ w.xfer = "get"
        /\ path' = [path EXCEPT ![p] = w.path]
        /\ pmod' = [pmod EXCEPT ![p] = w.pmod]
        /\ ret' = [NoRet EXCEPT !.p = p, !.op = "crash"]
        /\ UNCHANGED <<keyvars, remote, res, history, clock, nextTag, cache,
                       batch>>

NextCrash ==
    \/ NextCli
    \/ CrashInstall(Main)

SpecCrash == Init /\ [][NextCrash]_vars

----------------------------------------------------------------------------
\* `rogu mv KEY PATH` on one machine: the identities p of Procs are the local
\* paths of the machine under the one uri, cache[p] is the entry of the
\* resource cache under cache_key(path p, uri) and history[p] are the rows
\* of the history file with that key

\* rdsl.move without the check of the target key
move_unchecked(w, occupied) ==
    IF ~exists(w.path) THEN Raise(w, "OSError")
    ELSE Ok([w EXCEPT !.xfer = "move"], "moved")

\* rdsl.move up to its return: occupied says that the key of the new path is
\* in the cache; shutil.move of a path that does not exist raises an OSError
move_body(w, occupied) ==
    IF occupied THEN Fail(w, "not moved: target resource already exists")
    ELSE IF ~exists(w.path) THEN Raise(w, "OSError")
    ELSE Ok([w EXCEPT !.xfer = "move"], "moved")

\* `rogu mv KEY PATH`: the resource stored for identity p is moved to the
\* path of identity q.  shutil.move renames the path, replacing a file at
\* the target; the recording wrapper writes the row under the key the
\* resource has when the call returns
Move(p, q) ==
    /\ cache[p] # <<>>
    /\ LET w == move_body(Fetched(p), cache[q] # <<>>)
           moved == w.exc = "none" /\ w.xfer = "move"
           at == IF moved THEN q ELSE p
           row == [action |-> "move", ok |-> w.success,
                   local_hash |-> local_hash(path[p])]
       IN  /\ w.exc = "none" => Rows(history) < MaxHist
           /\ path' = IF moved
                      THEN [path EXCEPT ![q] = path[p], ![p] = 0]
                      ELSE path
           /\ pmod' = IF moved THEN [pmod EXCEPT ![q] = pmod[p]] ELSE pmod
           /\ history' = IF w.exc = "none"
                         THEN [history EXCEPT ![at] = Append(@, row)]
                         ELSE history
           /\ res' = [res EXCEPT ![at] = w.res]
           /\ ret' = [NoRet EXCEPT !.p = p, !.op = "move",
                                   !.out = Outcome(w), !.exc = w.exc,
                                   !.msg = IF w.exc # "none" THEN "none"
                                           ELSE w.msg,
                                   !.xfer = w.xfer, !.args = <<q>>]
           /\ UNCHANGED <<keyvars, remote, clock, nextTag, cache, batch>>

NextMove ==
    \/ \E p \in Procs : CliInstall(p)
    \/ \E p \in Procs : CliUpload(p)
    \/ \E p \in Procs : \E q \in Procs : Move(p, q)
    \/ \E p \in Procs : \E c \in Contents : LocalEdit(p, c)
    \/ \E p \in Procs : LocalRemove(p)

SpecMove == Init /\ [][NextMove]_vars

----------------------------------------------------------------------------
\* is_modified over the history file of one machine, whose rows carry the
\* key of their resource

Keys == {1, 2}

Hashes == {Sha1(c) : c \in Contents} \cup {EmptyStr}

\* the rows install and upload write: a successful one has the fingerprint
\* of the path it left
Entries ==
    {e \in [key : Keys, action : {"install", "upload"}, ok : BOOLEAN,
            local_hash : Hashes] : e.ok => e.local_hash # EmptyStr}

HistoryFile == UNION {[1..n -> Entries] : n \in 0..MaxHist}

\* the rows history.resource_entries compares with resource.key
key_entries(file, k) == SelectSeq(file, LAMBDA e : e.key = k)

\* is_modified(resource, actions) of the resource with key k and local path
\* content c, read from the history file
IsModified(file, k, c, actions) ==
    /\ call' = [fn |-> "is_modified", args |-> <<file, k, c, actions>>,
                cwd |-> cwd,
                value |-> is_modified([World(Main) EXCEPT
                                          !.hist = key_entries(file, k),
                                          !.path = c],
                                      actions)]
    /\ UNCHANGED <<remote, path, pmod, res, history, clock, nextTag, ret,
                   cache, batch, cwd, memo>>

\* one call in a behaviour
NextMod ==
    /\ call = NoCall
    /\ \E file \in HistoryFile : \E k \in Keys : \E c \in {0} \cup Contents :
           \E actions \in {{}, {"install"}, {"upload"}} :
               IsModified(file, k, c, actions)

SpecMod == Init /\ [][NextMod]_vars

----------------------------------------------------------------------------
\* Cache keys.  Strings are sequences of characters.  normalize_path is
\* modelled on paths without ~, environment variables, symbolic links and
\* dot segments: an absolute path is canonical, a relative one is joined to
\* the working directory.

\* ord('Z') - ord('A') + 1
Mod == 26

Rep(ch, n) == [i \in 1..n |-> ch]

Other == <<"/", "o">>

IsAbsolute(p) == Len(p) > 0 /\ p[1] = "/"

normalize_path(p, dir) == IF IsAbsolute(p) THEN p ELSE dir \o <<"/">> \o p

\* hashlib.sha1 over the bytes it was fed, as an injective function: the
\* digest stands for exactly one byte string
hexdigest(bytes) == bytes

\* the body of cache_key in working directory dir; the letters x and y are
\* given by their offsets from 'A'
cache_key_body(p, uri, dir) ==
    LET np == normalize_path(p, dir)
        x == Len(np) % Mod
        y == Len(uri) % Mod
    IN  <<x, y>> \o hexdigest(np \o uri)

\* cache_key under functools.cache: a call with arguments seen before gives
\* the remembered value
cache_key(p, uri) ==
    IF <<p, uri>> \in DOMAIN memo THEN memo[<<p, uri>>]
    ELSE cache_key_body(p, uri, cwd)

\* the lengths of the arguments: short ones and ones a multiple of Mod longer
Lengths == {1, Mod + 1}

PathArgs == {<<"/">> \o Rep("a", n) : n \in Lengths} \cup {<<"f">>}

UriArgs == {Rep("a", n) : n \in Lengths}

CacheKey(p, uri) ==
    /\ call' = [fn |-> "cache_key", args |-> <<p, uri>>,
                value |-> cache_key(p, uri), cwd |-> cwd]
    /\ memo' = (<<p, uri>> :> cache_key(p, uri)) @@ memo
    /\ UNCHANGED <<remote, path, pmod, res, history, clock, nextTag, ret,
                   cache, batch, cwd>>

\* rdsl.chdir
Chdir(dir) ==
    /\ cwd' = dir
    /\ UNCHANGED <<remote, path, pmod, res, history, clock, nextTag, ret,
                   cache, batch, memo, call>>

\* the process ends and a new one starts: the memo is gone
Restart ==
    /\ memo' = NoMemo
    /\ cwd' = Home
    /\ UNCHANGED <<remote, path, pmod, res, history, clock, nextTag, ret,
                   cache, batch, call>>

NextKey ==
    \/ \E p \in PathArgs : \E uri \in UriArgs : CacheKey(p, uri)
    \/ \E dir \in {Home, Other} : Chdir(dir)
    \/ Restart

SpecKey == Init /\ [][NextKey]_vars

----------------------------------------------------------------------------
\* expand_key over the keys of the resource cache

KeyLen == 3         \* characters of a key

AllKeys == [1..KeyLen -> {"A", "B"}]

KeySets == {K \in SUBSET AllKeys : Cardinality(K) <= MaxBatch}

Prefixes == UNION {[1..n -> {"A", "B"}] : n \in 0..KeyLen}

\* str.startswith
startswith(k, prefix) ==
    Len(prefix) <= Len(k) /\ SubSeq(k, 1, Len(prefix)) = prefix

\* expand_key that takes any of several matches
expand_key_any(keys, key) ==
    LET matches == {k \in keys : startswith(k, key)}
    IN  IF Cardinality(matches) = 0
        THEN [exc |-> "ValueError", msg |-> "does not match any resources",
              key |-> <<>>]
        ELSE [exc |-> "none", msg |-> "none",
              key |-> CHOOSE k \in matches : TRUE]

expand_key(keys, key) ==
    LET matches == {k \in keys : startswith(k, key)}
    IN  IF Cardinality(matches) > 1
        THEN [exc |-> "ValueError", msg |-> "is ambiguous", key |-> <<>>]
        ELSE IF Cardinality(matches) = 0
        THEN [exc |-> "ValueError", msg |-> "does not match any resources",
              key |-> <<>>]
        ELSE [exc |-> "none", msg |-> "none",
              key |-> CHOOSE k \in matches : TRUE]

ExpandKey(keys, key) ==
    /\ call' = [fn |-> "expand_key", args |-> <<keys, key>>,
                value |-> expand_key(keys, key), cwd |-> cwd]
    /\ UNCHANGED <<remote, path, pmod, res, history, clock, nextTag, ret,
                   cache, batch, cwd, memo>>

\* one call in a behaviour
NextExpand ==
    /\ call = NoCall
    /\ \E keys \in KeySets : \E key \in Prefixes : ExpandKey(keys, key)

SpecExpand == Init /\ [][NextExpand]_vars

----------------------------------------------------------------------------
\* rdsl.fetch: the class of the resource it returns.  A uri is given by its
\* scheme, by whether it ends in .git and by whether is_archive holds for it

Classes == {"File", "Archive", "Release", "Repo"}

Schemes == {"ugor+file", "ugor+archive", "release", "ftp"}

Uris == [scheme : Schemes, git : BOOLEAN, archive : BOOLEAN]

\* is_archive, which rdsl imports from resources
is_archive(uri) == uri.archive

\* stored is <<>> or the class of the resource the cache holds for the
\* identity, type the keyword type, "None" when it is not given, and kind
\* what the local path is: "none", "file" or "dir"
fetch_class(stored, type, kind, uri) ==
    LET cls == IF type \in Classes THEN type ELSE "None"
    IN  IF stored # <<>>
        THEN IF cls # "None" /\ stored[1] # cls
             THEN [exc |-> "AppError", class |-> "None"]
             ELSE [exc |-> "none", class |-> stored[1]]
        ELSE IF cls # "None" THEN [exc |-> "none", class |-> cls]
        ELSE IF kind = "file" THEN [exc |-> "none", class |-> "File"]
        ELSE IF uri.git THEN [exc |-> "none", class |-> "Repo"]
        ELSE IF is_archive(uri) \/ kind = "dir"
        THEN [exc |-> "none", class |-> "Archive"]
        ELSE [exc |-> "none", class |-> "File"]

Fetch(stored, type, kind, uri) ==
    /\ call' = [fn |-> "fetch", args |-> <<stored, type, kind, uri>>,
                value |-> fetch_class(stored, type, kind, uri), cwd |-> cwd]
    /\ UNCHANGED <<remote, path, pmod, res, history, clock, nextTag, ret,
                   cache, batch, cwd, memo>>

\* one call in a behaviour
NextFetch ==
    /\ call = NoCall
    /\ \E stored \in {<<>>} \cup {<<c>> : c \in Classes} :
       \E type \in {"None"} \cup Classes :
       \E kind \in {"none", "file", "dir"} :
       \E uri \in Uris :
           Fetch(stored, type, kind, uri)

SpecFetch == Init /\ [][NextFetch]_vars

----------------------------------------------------------------------------
\* Release resources: remote is the file of the latest release on GitHub.  A
\* Release has no upload, no update and no refresh_metadata method

\* Release.install: a failed download is an ActionBlocked, else the ETag of
\* the answer is kept and the file is unpacked or copied to the path
Release_install(w, force) ==
    IF ~w.remote.exists THEN Raise(w, "ActionBlocked")
    ELSE [w EXCEPT !.res.last_etag = w.remote.etag,
                   !.path = w.remote.content, !.pmod = clock, !.xfer = "get"]

\* rdsl.install of a Release
release_install_body(w, force) ==
    IF is_modified(w, {"install"}) /\ ~force
    THEN Fail(w, "not installed: resource has local changes")
    ELSE LET w1 == Release_install(
                       [w EXCEPT !.res.category = BitOr(@, INSTALL)], force)
         IN  IF w1.exc = "ActionBlocked"
             THEN Fail([w1 EXCEPT !.exc = "none"], "not installed")
             ELSE Ok(w1, "installed")

release_install(w, force) ==
    recording("install", release_install_body(w, force))

\* rdsl.upload of a Release: it has no upload attribute
release_upload(w, force) == recording("upload", Raise(w, "AppError"))

\* a sync that does not ask for the upload method
release_sync_unchecked(w, force) ==
    sync_body(w, force)

\* rdsl.sync of a Release: it has no upload attribute
release_sync_body(w, force) ==
    Fail(w, "cannot sync")

release_sync(w, force) == recording("sync", release_sync_body(w, force))

\* rdsl.update of a Release
release_update_body(w) ==
    IF is_ignored(w.res) THEN Fail(w, "not updated: ignored")
    ELSE IF is_synced(w.res)
    THEN release_sync([w EXCEPT !.ran = "sync"], FALSE)
    ELSE IF is_installed(w.res)
    THEN release_install([w EXCEPT !.ran = "install"], FALSE)
    ELSE IF is_uploaded(w.res)
    THEN release_upload([w EXCEPT !.ran = "upload"], FALSE)
    ELSE Raise(w, "AppError")

release_update(w) == recording("update", release_update_body(w))

ReleaseInstall(p, force) ==
    Commit(p, "install", force, release_install(World(p), force))

ReleaseUpload(p, force) ==
    Commit(p, "upload", force, release_upload(World(p), force))

ReleaseSync(p, force) ==
    Commit(p, "sync", force, release_sync(World(p), force))

ReleaseUpdate(p) == Commit(p, "update", FALSE, release_update(World(p)))

\* the maintainers publish a release with the file c
Publish(c) ==
    /\ nextTag < MaxTag
    /\ remote' = [exists |-> TRUE, content |-> c, etag |-> nextTag + 1,
                  modified |-> clock, data2 |-> None]
    /\ nextTag' = nextTag + 1
    /\ ret' = NoRet
    /\ UNCHANGED <<keyvars, path, pmod, res, history, clock, cache, batch>>

\* no action of a Release reads a modification time, so the clock stands
NextRelease ==
    \/ \E force \in BOOLEAN : ReleaseInstall(Main, force)
    \/ \E force \in BOOLEAN : ReleaseUpload(Main, force)
    \/ \E force \in BOOLEAN : ReleaseSync(Main, force)
    \/ ReleaseUpdate(Main)
    \/ \E c \in Contents : LocalEdit(Main, c)
    \/ LocalRemove(Main)
    \/ \E c \in Contents : Publish(c)

SpecRelease == Init /\ [][NextRelease]_vars

----------------------------------------------------------------------------
\* The history file as bytes: _HistoryManager.__iter__ reads it backwards in
\* chunks of buf_size bytes

MaxLine == 2

MaxBuf == 4

\* the line terminator of the csv dialect 'unix'
Newline == 0

Bytes == {1, 2}

\* the lines the writer appends: not empty and without a line terminator
Lines == UNION {[1..n -> Bytes] : n \in 1..MaxLine}

LineSeqs == UNION {[1..n -> Lines] : n \in 0..MaxHist}

Min(a, b) == IF a <= b THEN a ELSE b

\* writer().writerow for each line in turn, on an empty file
RECURSIVE writerows(_)
writerows(lines) ==
    IF lines = <<>> THEN <<>>
    ELSE writerows(SubSeq(lines, 1, Len(lines) - 1))
             \o lines[Len(lines)] \o <<Newline>>

\* bytearray.rpartition(b'\n') of a buffer that holds a line terminator
rpartition(buffer) ==
    LET k == MaxOf({i \in 1..Len(buffer) : buffer[i] = Newline})
    IN  [head |-> SubSeq(buffer, 1, k - 1),
         line |-> SubSeq(buffer, k + 1, Len(buffer))]

\* the inner loop: the lines of the buffer are yielded from the last one on
\* while a line terminator is left in it, empty ones are skipped
RECURSIVE split(_, _)
split(buffer, out) ==
    IF \E i \in 1..Len(buffer) : buffer[i] = Newline
    THEN LET part == rpartition(buffer)
         IN  split(part.head,
                   IF part.line # <<>> THEN Append(out, part.line) ELSE out)
    ELSE [buffer |-> buffer, out |-> out]

\* a reader that yields what is left of a chunk instead of keeping it
RECURSIVE iter_chunkwise(_, _, _, _, _)
iter_chunkwise(file, pos, buffer, out, buf_size) ==
    IF pos > 0
    THEN LET read_size == Min(buf_size, pos)
             chunk == SubSeq(file, pos - read_size + 1, pos)
             s == split(chunk, out)
         IN  iter_chunkwise(file, pos - read_size, <<>>,
                  IF s.buffer # <<>> THEN Append(s.out, s.buffer) ELSE s.out,
                  buf_size)
    ELSE out

\* the outer loop; out is the sequence of the lines yielded so far
RECURSIVE iter(_, _, _, _, _)
iter(file, pos, buffer, out, buf_size) ==
    IF pos > 0
    THEN LET read_size == Min(buf_size, pos)
             chunk == SubSeq(file, pos - read_size + 1, pos)
             s == split(chunk \o buffer, out)
         IN  iter(file, pos - read_size, s.buffer, s.out, buf_size)
    ELSE IF buffer # <<>> THEN Append(out, buffer) ELSE out

\* the lines are written to an empty history file, which is then read
HistoryIter(lines, buf_size) ==
    /\ call' = [fn |-> "iter", args |-> <<lines, buf_size>>, cwd |-> cwd,
                value |-> LET file == writerows(lines)
                          IN  iter(file, Len(file), <<>>, <<>>, buf_size)]
    /\ UNCHANGED <<remote, path, pmod, res, history, clock, nextTag, ret,
                   cache, batch, cwd, memo>>

\* one call in a behaviour
NextIter ==
    /\ call = NoCall
    /\ \E lines \in LineSeqs : \E buf_size \in 1..MaxBuf :
           HistoryIter(lines, buf_size)

SpecIter == Init /\ [][NextIter]_vars

----------------------------------------------------------------------------
\* refresh_metadata of a File and of an Archive, and divergence() of the
\* resource it leaves once the local path is there again

\* Archive.refresh_metadata: the bookkeeping is reset to empty strings
Archive_refresh_metadata(w) ==
    IF ~exists(w.path) /\ w.res.category # DEFAULT
    THEN [w EXCEPT !.res.category = DEFAULT, !.res.last_etag = EmptyStr,
                   !.res.last_modified = EmptyStr]
    ELSE w

\* refresh_metadata of the resource r of class class with the local path c0,
\* then divergence() with the local path c of modification time t and the
\* remote object rem
RefreshMetadata(class, r, c0, c, t, rem) ==
    /\ call' =
           [fn |-> "refresh_metadata", args |-> <<class, r, c0, c, t, rem>>,
            cwd |-> cwd,
            value |->
                LET w == [World(Main) EXCEPT !.res = r, !.path = c0]
                    w1 == IF class = "Archive"
                          THEN Archive_refresh_metadata(w)
                          ELSE refresh_metadata(w)
                IN  [res |-> w1.res,
                     div |-> divergenceOf(w1.res, c, t, rem)]]
    /\ UNCHANGED <<remote, path, pmod, res, history, clock, nextTag, ret,
                   cache, batch, cwd, memo>>

\* one call in a behaviour
NextRefresh ==
    /\ call = NoCall
    /\ \E class \in {"File", "Archive"} : \E r \in Resources :
       \E c0 \in {0} \cup Contents : \E c \in Contents :
       \E t \in 1..MaxClock : \E rem \in RemoteObjects :
           RefreshMetadata(class, r, c0, c, t, rem)

SpecRefresh == Init /\ [][NextRefresh]_vars

----------------------------------------------------------------------------
\* Claims

Actions == {"install", "upload", "sync", "update"}

\* a step of client p running op without force
NonForced(p, op) == ret'.p = p /\ ret'.op = op /\ ~ret'.force

\* C1: whenever divergence() of a resource is +2 or -2, a non-forced install,
\* upload, sync or update of it does not succeed and transfers nothing.
\* (Stated with "does not succeed" for "returns a Blocked Result", so that a
\* fatal error without a transfer does not count against the claim.)
C1_ConflictBlocksAction ==
    (ret.op \in Actions /\ ~ret.force /\ ret.div \in {-2, 2})
        => (ret.out # "Ok" /\ ret.xfer = "none")

\* C2: a non-forced upload of a resource whose last-known ETag
\* differs from the current ETag of the remote object is rejected, and leaves
\* the remote object and the resource's last_etag and last_modified unchanged.
\* (Stated without "by the store", so that a local refusal does not count
\* against the claim.)
C2_StaleUploadRejected ==
    [][\A p \in Procs :
        (NonForced(p, "upload") /\ remote.exists
            /\ res[p].last_etag # remote.etag)
        => (/\ remote' = remote
            /\ res'[p].last_etag = res[p].last_etag
            /\ res'[p].last_modified = res[p].last_modified)]_vars

\* the store's answer to the PUT a non-forced upload of client q would send
PutOf(q) ==
    ugor_put(remote, path[q], res[q].last_etag, res[q].last_modified,
             path_hash(path[q]), FALSE, nextTag + 1, clock)

\* C3: when the store accepts the non-forced PUT of one of two
\* clients that hold the same last-known ETag, it rejects the PUT of the other
\* (whose local path exists, so that its upload sends one).
C3_OneOfTwoAccepted ==
    [][\A p, q \in Procs :
        (/\ p # q
         /\ NonForced(p, "upload") /\ ret'.xfer = "put"
         /\ res[q].last_etag = res[p].last_etag
         /\ exists(path[q]))
        => PutOf(q)'.status = 412]_vars

\* C4: a non-forced sync of a resource without conflict acts in the direction
\* of divergence(): an upload and no install when it is positive, an install
\* and no upload when it is negative, no transfer when it is zero.
C4_SyncFollowsDivergence ==
    (ret.op = "sync" /\ ~ret.force /\ ret.div \in {-1, 0, 1})
        => /\ ret.div = 1 => ret.xfer = "put"
           /\ ret.div = -1 => ret.xfer = "get"
           /\ ret.div = 0 => ret.xfer = "none"

\* the local path and the ETag/Last-Modified bookkeeping of client p are left
\* as they are
LocalUnchanged(p) ==
    /\ path'[p] = path[p]
    /\ pmod'[p] = pmod[p]
    /\ res'[p].last_etag = res[p].last_etag
    /\ res'[p].last_modified = res[p].last_modified

\* C5: a non-forced install of a resource whose divergence() is greater than
\* 0 does not succeed and leaves the local path and the ETag/Last-Modified
\* bookkeeping unchanged.  (Stated with "does not succeed" for "is Blocked",
\* so that a fatal error does not count against the claim.)
C5_InstallBlockedWhenLocalAhead ==
    [][\A p \in Procs :
        (NonForced(p, "install") /\ divergence(p) > 0)
        => (ret'.out # "Ok" /\ LocalUnchanged(p))]_vars

\* C6: a non-forced upload of a resource whose divergence() is less than 0
\* does not succeed and does not write the remote object.  (Stated with "does
\* not succeed" for "is blocked", so that a fatal error does not count
\* against the claim.)
C6_UploadBlockedWhenRemoteAhead ==
    [][\A p \in Procs :
        (NonForced(p, "upload") /\ divergence(p) < 0)
        => (ret'.out # "Ok" /\ remote' = remote)]_vars

\* C7: a non-forced install at divergence 0 is a no-op success, and a second
\* install right after a successful one transfers nothing and leaves the local
\* path, last_etag and last_modified as the first call left them.  (Stated
\* for a resource both sides of which exist.)
C7_InstallIdempotent ==
    [][\A p \in Procs :
        /\ (NonForced(p, "install") /\ divergence(p) = 0
                /\ remote.exists /\ exists(path[p]))
            => (ret'.out = "Ok" /\ ret'.xfer = "none" /\ LocalUnchanged(p))
        /\ (NonForced(p, "install")
                /\ ret.p = p /\ ret.op = "install" /\ ret.out = "Ok")
            => (ret'.out \in {"Ok", "Fail"} /\ ret'.xfer = "none"
                /\ LocalUnchanged(p))]_vars

\* C8: after an install that is not blocked the local content is
\* the content of the remote object, last_etag and last_modified are its ETag
\* and Last-Modified, and the category has the INSTALL bit.
C8_InstallTransfers ==
    [][\A p \in Procs :
        (ret'.p = p /\ ret'.op = "install" /\ ret'.out = "Ok")
        => (/\ path'[p] = remote.content
            /\ res'[p].last_etag = remote.etag
            /\ res'[p].last_modified = remote.modified
            /\ HasBit(res'[p].category, INSTALL))]_vars

\* client q is a clean copy: no local path, no bookkeeping, no history
Clean(q) == ~exists(path[q]) /\ res[q] = NewResource /\ history[q] = <<>>

C10_DivergenceByExistence ==
    ret.op = "divergence" =>
        /\ (~remote.exists /\ exists(path[ret.p])) => ret.div = 1
        /\ (~remote.exists /\ ~exists(path[ret.p])) => ret.div = 0
        /\ (remote.exists /\ ~exists(path[ret.p])) => ret.div = -1

\* C10 witness: divergence() of a resource with bookkeeping whose remote
\* object is absent and whose local path exists
C10_Witness ==
    /\ ret.op = "divergence" /\ ret.div = 1
    /\ ~remote.exists /\ exists(path[ret.p])
    /\ Truthy(res[ret.p].last_etag)

\* divergence() was evaluated for a resource both sides of which exist
BothExist == ret.op = "divergence" /\ remote.exists /\ exists(path[ret.p])

\* C11: for a never-synced resource (last_etag None) both sides of which
\* exist, divergence() is -2 when the remote Last-Modified is strictly newer
\* than the local modification time and +2 otherwise, equal timestamps
\* included.
C11_NeverSyncedConflict ==
    (BothExist /\ res[ret.p].last_etag = None)
        => ret.div = (IF remote.modified > pmod[ret.p] THEN -2 ELSE 2)

\* C11 witness: a never-synced resource with equal timestamps on both sides
C11_Witness ==
    /\ BothExist /\ res[ret.p].last_etag = None
    /\ remote.modified = pmod[ret.p] /\ ret.div = 2

\* C12: for a resource with a last-known ETag whose remote object carries no
\* fingerprint, both sides existing, divergence() is -1 when the remote ETag
\* differs from the last-known ETag and 0 otherwise, whatever the local
\* content is; it is never positive.
C12_NeverUploadedNotPositive ==
    (BothExist /\ res[ret.p].last_etag # None /\ remote.data2 = None)
        => /\ ret.div = (IF res[ret.p].last_etag # remote.etag THEN -1 ELSE 0)
           /\ ret.div <= 0

\* C12 witness: the ETag is the last-known one, the local content is not the
\* remote content, and divergence() is 0
C12_Witness ==
    /\ BothExist /\ remote.data2 = None
    /\ res[ret.p].last_etag = remote.etag
    /\ path[ret.p] # remote.content /\ ret.div = 0

\* C13: for a resource with a last-known ETag whose remote object carries a
\* fingerprint, both sides existing, divergence() is: local hash and remote
\* ETag both changed, -2 if the remote is strictly newer, else +2; only the
\* local hash changed, +1; only the remote ETag changed, -1; neither, 0.
C13_DivergenceTable ==
    (BothExist /\ res[ret.p].last_etag # None /\ remote.data2 # None)
        => LET localChanged == remote.data2 # Sha1(path[ret.p])
               remoteChanged == res[ret.p].last_etag # remote.etag
           IN  /\ (localChanged /\ remoteChanged) =>
                    ret.div = (IF remote.modified > pmod[ret.p] THEN -2 ELSE 2)
               /\ (localChanged /\ ~remoteChanged) => ret.div = 1
               /\ (~localChanged /\ remoteChanged) => ret.div = -1
               /\ (~localChanged /\ ~remoteChanged) => ret.div = 0

\* C13 witness: only the local hash changed
C13_Witness ==
    /\ BothExist /\ Truthy(res[ret.p].last_etag) /\ remote.data2 # None
    /\ remote.data2 # Sha1(path[ret.p])
    /\ res[ret.p].last_etag = remote.etag /\ ret.div = 1

\* the action the dispatch of update selects for category cat
Dispatch(cat) ==
    IF HasBit(cat, IGNORE) THEN "ignored"
    ELSE IF HasBit(cat, INSTALL) /\ HasBit(cat, UPLOAD) THEN "sync"
    ELSE IF HasBit(cat, INSTALL) THEN "install"
    ELSE IF HasBit(cat, UPLOAD) THEN "upload"
    ELSE "unknown"

\* a call of update by client p dispatched as d: a Fail without transfer for
\* an ignored resource, the action for a category with INSTALL or UPLOAD, the
\* fatal error for any other category
Dispatched(p, d) ==
    /\ d = "ignored" =>
        ret'.out = "Fail" /\ ret'.xfer = "none" /\ ret'.ran = "none"
    /\ d \in {"sync", "install", "upload"} => ret'.ran = d
    /\ d = "unknown" =>
        ret'.exc = "AppError" /\ ret'.xfer = "none" /\ ret'.ran = "none"

C17_OneHistoryEntry ==
    [][\A p \in Procs :
        (ret'.p = p /\ ret'.op \in Actions)
        => Len(history'[p]) = Len(history[p]) + 1]_vars

\* C19: a non-forced action that the store answers with 412 returns an
\* unsuccessful Result; UgorError412 is never raised to the caller.
C19_PreconditionFailedIsBlocked ==
    (ret.op \in Actions /\ ~ret.force) => ret.exc # "UgorError412"

\* the resources of the cache in the order a stable partition by the UPLOAD
\* bit gives them
UploadedFirst(loaded) ==
    LET ids == [k \in DOMAIN loaded |-> k]
        up(k) == is_uploaded(loaded[k])
        rest(k) == ~is_uploaded(loaded[k])
    IN  SelectSeq(ids, up) \o SelectSeq(ids, rest)

\* C15: when the batch update has ended, every resource of the cache was
\* handed to update exactly once, the resources with the UPLOAD bit before
\* all others, in the order of the cache inside each of the two groups.
C15_BatchUploadedFirst ==
    batch.pc \in {"exit", "crash"}
        => [k \in DOMAIN batch.log |-> batch.log[k].id]
                = UploadedFirst(batch.loaded)

\* C16: when the batch update has ended, every resource of the cache was
\* handed to update, also those that come after a resource whose update
\* raised an error, and the exit status is non-zero if an update raised one.
C16_BatchIsolatesErrors ==
    batch.pc \in {"exit", "crash"}
        => /\ \A k \in DOMAIN batch.loaded :
                \E j \in DOMAIN batch.log : batch.log[j].id = k
           /\ (\E j \in DOMAIN batch.log : batch.log[j].exc # "none")
                => batch.code # 0

\* C18: when the install, upload, sync or update command ends with an
\* unsuccessful Result or with an exception, the cache keeps the record it
\* had for the resource, or keeps having none
C18_StoreOnlyAfterSuccess ==
    [][\A p \in Procs :
          (ret'.p = p /\ ret'.op \in Actions /\ ret'.out # "Ok")
              => cache'[p] = cache[p]]_vars

\* C20: delete with local and remote and without force, of a stored resource
\* whose remote object is the one it last saw, leaves no cache entry and no
\* local path and sends one DELETE with the last-known ETag as If-Match
C20_DeleteEverywhere ==
    [][\A p \in Procs :
          (/\ ret'.p = p /\ ret'.op = "delete" /\ ~ret'.force
           /\ ret'.args = <<TRUE, TRUE>>
           /\ cache[p] # <<>> /\ remote.exists
           /\ Truthy(cache[p][1].last_etag)
           /\ cache[p][1].last_etag = remote.etag)
              => /\ cache'[p] = <<>>
                 /\ ~exists(path'[p])
                 /\ ret'.xfer = "delete" /\ ~remote'.exists
                 /\ ret'.ifm = cache[p][1].last_etag]_vars

\* C21: a delete of a stored resource with a last-known ETag never ends in
\* an exception, whatever the store answers to the DELETE: it takes the
\* record out of the cache, and when the local copy was to be removed the
\* local path is gone afterwards (also when it was absent before)
C21_DeleteEffectsIndependent ==
    [][\A p \in Procs :
          (/\ ret'.p = p /\ ret'.op = "delete"
           /\ cache[p] # <<>> /\ Truthy(cache[p][1].last_etag))
              => /\ ret'.out # "Raise"
                 /\ cache'[p] = <<>>
                 /\ ret'.args[1] => ~exists(path'[p])]_vars

\* C22: a successful move of the resource of identity p, which has an ETag,
\* to the path of identity q relocates the local path, takes the record out of the cache
\* under the old key and stores it under the new key with category,
\* last_etag and last_modified as they were, so that a fetch under the new
\* path gives the same ETag
C22_MoveRekeys ==
    [][\A p \in Procs : \A q \in Procs \ {p} :
          (/\ ret'.p = p /\ ret'.op = "move" /\ ret'.args = <<q>>
           /\ ret'.out = "Ok" /\ Truthy(fetch(p).last_etag))
              => /\ path'[q] = path[p] /\ ~exists(path'[p])
                 /\ cache'[p] = <<>>
                 /\ cache'[q] = cache[p]
                 /\ fetch(q)'.last_etag = fetch(p).last_etag]_vars

\* C23: a move to a path whose key is occupied in the cache by another
\* resource is unsuccessful, relocates nothing and leaves both cache
\* entries as they were
C23_MoveToOccupiedFails ==
    [][\A p \in Procs : \A q \in Procs \ {p} :
          (/\ ret'.p = p /\ ret'.op = "move" /\ ret'.args = <<q>>
           /\ cache[q] # <<>>)
              => /\ ret'.out = "Fail"
                 /\ path' = path
                 /\ cache' = cache]_vars

\* a move was refused although the source existed and differs from the
\* stored target
C23_Witness ==
    \E p \in Procs : \E q \in Procs \ {p} :
        /\ ret.p = p /\ ret.op = "move" /\ ret.args = <<q>>
        /\ ret.out = "Fail"
        /\ cache[p] # <<>> /\ cache[q] # <<>> /\ cache[p] # cache[q]
        /\ exists(path[p]) /\ exists(path[q]) /\ path[p] # path[q]

Successful(c) == SelectSeq(c.args[1], LAMBDA e : e.ok /\ e.key = c.args[2])

\* those of them that the actions of the call admit
Matching(c) ==
    SelectSeq(Successful(c),
              LAMBDA e : c.args[4] = {} \/ e.action \in c.args[4])

CanSucceed(p) ==
    \/ Outcome(install(Fetched(p), FALSE)) = "Ok"
    \/ exists(path[p]) /\ Outcome(upload(Fetched(p), FALSE)) = "Ok"
    \/ Outcome(sync(Fetched(p), FALSE)) = "Ok"
    \/ cache[p] # <<>> /\ Outcome(update(Fetched(p))) = "Ok"

\* the successful rows of the history file of client p
OkRows(p) == SelectSeq(history[p], LAMBDA e : e.ok)

\* C26: in the state an install killed after its write leaves behind, some
\* command on the resource succeeds; and a command that succeeds in that
\* state leaves the stored ETag equal to the ETag of the remote object and
\* the newest successful row of the history with the fingerprint of the
\* local path
C26_CrashSelfCorrects ==
    [][\A p \in Procs :
          /\ (ret'.p = p /\ ret'.op = "crash") => CanSucceed(p)'
          /\ (/\ ret.p = p /\ ret.op = "crash"
              /\ ret'.p = p /\ ret'.op \in Actions /\ ret'.out = "Ok")
                 => /\ cache'[p] # <<>>
                    /\ cache'[p][1].last_etag = remote'.etag
                    /\ OkRows(p)' # <<>>
                    /\ OkRows(p)'[Len(OkRows(p)')].local_hash
                           = local_hash(path'[p])]_vars

\* the stored resource of client p is INSTALL-only, has an ETag, and its
\* local path is as the last successful install left it
InstalledOnly(p) ==
    /\ cache[p] # <<>> /\ fetch(p).category = INSTALL
    /\ Truthy(fetch(p).last_etag)
    /\ exists(path[p]) /\ ~is_modified(Fetched(p), {"install"})

C28_KeyInjective ==
    \A a \in DOMAIN memo : \A b \in DOMAIN memo :
        (IsAbsolute(a[1]) /\ IsAbsolute(b[1]) /\ a # b) => memo[a] # memo[b]

\* C29: the key a call of cache_key returns is the key of the canonical
\* path its path argument has in the working directory of the call, and of
\* its uri
C29_KeyOfCurrentPath ==
    call.fn = "cache_key"
        => call.value = cache_key_body(call.args[1], call.args[2], call.cwd)

\* the keys of the call that start with its prefix
Matches(c) == {k \in c.args[1] : startswith(k, c.args[2])}

\* C30: expand_key returns the one key of the cache that starts with the
\* prefix, fails with the no-match error when no key does and with the
\* ambiguity error when several do; a key it returns is a key of the cache
C30_UniquePrefixLookup ==
    call.fn = "expand_key"
        => /\ Cardinality(Matches(call)) = 1
                => /\ call.value.exc = "none"
                   /\ call.value.key \in Matches(call)
           /\ Cardinality(Matches(call)) = 0
                => /\ call.value.exc = "ValueError"
                   /\ call.value.msg = "does not match any resources"
           /\ Cardinality(Matches(call)) > 1
                => /\ call.value.exc = "ValueError"
                   /\ call.value.msg = "is ambiguous"
           /\ call.value.exc = "none" => call.value.key \in call.args[1]

\* a prefix shorter than a key was ambiguous among three keys, two of which
\* start with it
C30_Witness ==
    /\ call.fn = "expand_key"
    /\ call.value.exc = "ValueError" /\ call.value.msg = "is ambiguous"
    /\ Cardinality(call.args[1]) = 3 /\ Cardinality(Matches(call)) = 2
    /\ Len(call.args[2]) = 2

\* the schemes of the uris of Files, Archives and Releases
Recognized == {"ugor+file", "ugor+archive", "release"}

\* C31: fetch of an identity that is not stored, without a forced type and
\* with a uri whose scheme is not recognized, fails with
\* UnrecognizedResource and returns no resource
C31_UnknownSchemeRejected ==
    (/\ call.fn = "fetch" /\ call.args[1] = <<>> /\ call.args[2] = "None"
     /\ call.args[4].scheme \notin Recognized)
        => /\ call.value.exc = "UnrecognizedResource"
           /\ call.value.class \notin {"File", "Archive", "Release"}

\* C32: no install, upload, sync or update of a Release changes the remote
\* object or makes a PUT; upload is refused with an AppError, sync is refused
\* as a Fail for the missing method, and the category never has the UPLOAD
\* bit
C32_ReleaseInstallOnly ==
    [][ret'.op \in Actions =>
          /\ remote' = remote
          /\ ret'.xfer # "put"
          /\ ~HasBit(res'[Main].category, UPLOAD)
          /\ ret'.op = "upload" =>
                 /\ ret'.exc = "AppError"
                 /\ res' = res /\ path' = path /\ history' = history
          /\ ret'.op = "sync" =>
                 /\ ret'.out = "Fail" /\ ret'.msg = "cannot sync"
                 /\ res' = res /\ path' = path]_vars

\* a sync of a Release that was installed before is refused
C32_Witness ==
    /\ ret.op = "sync" /\ ret.out = "Fail"
    /\ is_installed(res[Main]) /\ Truthy(res[Main].last_etag)
    /\ \E i \in DOMAIN history[Main] :
           history[Main][i].action = "install" /\ history[Main][i].ok

Reverse(q) == [i \in 1..Len(q) |-> q[Len(q) + 1 - i]]

\* C33: whatever lines were appended and whatever the buffer size, reading
\* the history yields each appended line once, whole and unchanged, the
\* last appended first
C33_ReadNewestFirst ==
    call.fn = "iter" => call.value = Reverse(call.args[1])

\* three lines were read with a buffer that is shorter than one of them, so
\* that the line spans two chunks
C33_Witness ==
    /\ call.fn = "iter"
    /\ Len(call.args[1]) = 3
    /\ \E i \in 1..3 : Len(call.args[1][i]) > call.args[2]
    /\ call.value = Reverse(call.args[1])

C35_NotSyncedIsFailure ==
    (ret.op = "sync" /\ ret.msg = "not synced" /\ ret.div # 0)
        => /\ ret.out = "Fail"
           /\ ~history[ret.p][Len(history[ret.p])].ok

\* C36: an install, upload or sync that returns an unsuccessful Result
\* leaves the category of the resource as it was before the call; stated for
\* the calls in which refresh_metadata has nothing to reset
C36_FailKeepsCategory ==
    [][(/\ ret'.op \in {"install", "upload", "sync"} /\ ret'.out = "Fail"
        /\ refresh_metadata(World(ret'.p)) = World(ret'.p))
          => res'[ret'.p].category = res[ret'.p].category]_vars

\* C37: right after an install or an upload that returned a successful
\* Result, divergence() of the resource is 0
C37_SuccessLeavesNoDivergence ==
    [][(ret'.op \in {"install", "upload"} /\ ret'.out = "Ok")
          => divergenceOf(res'[ret'.p], path'[ret'.p], pmod'[ret'.p],
                          remote') = 0]_vars

\* C38: the call that follows a successful install, upload or sync that
\* transferred the content, with nothing done in between, finds the resource
\* unmodified: a non-forced install is not refused for local changes, a
\* non-forced upload is refused for the lack of them
C38_UnmodifiedAfterSuccess ==
    [][(/\ ret.op \in {"install", "upload", "sync"} /\ ret.out = "Ok"
        /\ ret.xfer \in {"put", "get"}
        /\ ret'.p = ret.p /\ ~ret'.force)
          => /\ ret'.op = "install" =>
                    ret'.msg # "not installed: resource has local changes"
             /\ ret'.op = "upload" =>
                    /\ ret'.out = "Fail"
                    /\ ret'.msg = "not uploaded: resource has no local changes"]_vars

\* C39: refresh_metadata of a File or an Archive that was synced before and
\* whose local path is missing leaves the category DEFAULT, and divergence()
\* of the resource it leaves is +2 or -2 once the local path and the remote
\* object both exist
C39_ResetIsNeverSynced ==
    (/\ call.fn = "refresh_metadata"
     /\ call.args[2].category # DEFAULT /\ Truthy(call.args[2].last_etag)
     /\ ~exists(call.args[3]) /\ call.args[6].exists)
        => /\ call.value.res.category = DEFAULT
           /\ call.value.div \in {2, -2}

====
